---------------------------- MODULE Spec2Model ----------------------------
(***************************************************************************)
(* Model of github.com/publitsweden/APIUtilityGoSDK:                       *)
(*   client.Client     (src/client/client.go)   credentials, token, mutex  *)
(*   APIClient         (src/unnamed/part_003)   verb-shaped operations     *)
(*   endpoint.Resource (src/endpoint/endpoint.go)  endpoint templates      *)
(*   APIErrorResponse  (src/common/common.go)   normalized API error       *)
(*                                                                         *)
(* The APIClient's history of response codes is not part of part_003; it   *)
(* is modelled after its description (responseCodes, RecordedReturn).      *)
(*                                                                         *)
(* Goroutines share one Client.  Every goroutine runs one operation at a   *)
(* time; pc[p] is the source line it is about to execute and stack[p] the  *)
(* return addresses of the calls it is inside of.  Strings are sequences   *)
(* of characters, "" is << >>.                                             *)
(***************************************************************************)
EXTENDS Integers, Sequences, FiniteSets, TLC

VARIABLES
    User, Password, AccountID,  \* Client credentials            client.go:20-24
    HTTPClient,                 \* Client.HTTPClient: the Doer, see Do     :26
    Token,                      \* Client.Token                  client.go:28
    M,                          \* Client.M: 0 free, else holder client.go:32
    BaseURL, API,               \* APIClient fields              part_003:46-47
    callers,                    \* goroutines that use the client
    pc, op, stack,              \* control state of each goroutine
    req,                        \* the *http.Request of the running operation
    resp, err,                  \* resp, err := c.HTTPClient.Do(r)  client.go:78
    t,                          \* t := c.Token                  client.go:88
    token,                      \* token := r.Header.Get("token") client.go:122
    serr,                       \* error returned by setTokenFromResponse
    ret,                        \* values returned by the operation
    entryToken,                 \* history: Token when the operation was invoked
    prevOp,                     \* history: the operation the caller completed
                                \* before, and the Token it was invoked with
    doCount,                    \* transport calls made by the operation
    budget,                     \* operations that may still be invoked
    responseCodes,              \* APIClient: the status codes observed so far
    endpoint,                   \* the Endpointer an APIClient operation is given
    epoint,                     \* epoint, err := endpoint.GetEndpoint() part_003:111
    delegated,                  \* calls of c.Client made by the operation
    logs                        \* history: entries the operation has given to
                                \* Client.Logger, by level      client.go:30

vars == <<User, Password, AccountID, HTTPClient, Token, M, BaseURL, API, callers,
          pc, op, stack, req, resp, err, t, token, serr, ret,
          entryToken, prevOp, doCount, budget,
          responseCodes, endpoint, epoint, delegated, logs>>

\* what the steps of the Client leave alone: the APIClient's history and the
\* locals of its operations
apivars == <<responseCodes, endpoint, epoint, delegated>>

config == <<User, Password, AccountID, HTTPClient, BaseURL, API, callers>>

-----------------------------------------------------------------------------
(* Bounds *)

\* goroutines sharing the client
NumProcs == 2
\* operations invoked in a run of the shared client
MaxSharedCalls == 2
\* operations invoked in a run of a single caller
MaxCalls == 3
\* operations invoked on the APIClient in a run of a single caller
MaxAPICalls == 2
\* qualifiers an endpoint is given at most
MaxQualifiers == 3

Procs == 1..NumProcs

-----------------------------------------------------------------------------
(* Values *)

Empty == << >>

\* Tokens a configuration function can store, and tokens the remote service
\* can send in a response header.
ConfigTokens   == {<<"a">>}
ResponseTokens == {<<"b">>}
TokenValues    == ConfigTokens \cup ResponseTokens

\* What a read of Client.Token that races with a write of a different value
\* can yield besides the old and the new value: a string header whose pointer
\* and length come from different writes.
Torn == <<"#">>

Users        == {<<"u">>}
Passwords    == {Empty, <<"p">>}
AccountIDs   == {0, 12}
BaseURLs     == {Empty, <<"h">>}
APIs         == {Empty, <<"api">>}
StatusCodes  == {200, 400}

API_VERSION          == <<"v2.0">>
RESOURCE_STATUSCHECK == <<"status_check">>
RESOURCE_TOKEN       == <<"token">>

StatusOK == 200

\* The body of a response, by what the decoders make of it: target says
\* whether json.Decode into the caller's model succeeds, apiErr whether
\* json.Decode into common.APIErrorResponse succeeds, and Code, Type and
\* CombinedInfo are the fields that decoding fills (common.go:88-93).
NoBody == [target |-> FALSE, apiErr |-> FALSE,
           Code |-> 0, Type |-> Empty, CombinedInfo |-> Empty]

\* not JSON; {}; a complete API error; one the caller's model rejects; API
\* errors that lack one field; JSON that is no API error
Bodies ==
    { NoBody,
      [NoBody EXCEPT !.target = TRUE, !.apiErr = TRUE],
      [target |-> TRUE, apiErr |-> TRUE, Code |-> 400,
       Type |-> <<"BadRequest">>, CombinedInfo |-> <<"Some error">>],
      [target |-> FALSE, apiErr |-> TRUE, Code |-> 400,
       Type |-> <<"BadRequest">>, CombinedInfo |-> <<"Some error">>],
      [target |-> TRUE, apiErr |-> TRUE, Code |-> 0,
       Type |-> <<"BadRequest">>, CombinedInfo |-> <<"Some error">>],
      [target |-> TRUE, apiErr |-> TRUE, Code |-> 400,
       Type |-> Empty, CombinedInfo |-> <<"Some error">>],
      [target |-> TRUE, apiErr |-> TRUE, Code |-> 400,
       Type |-> <<"BadRequest">>, CombinedInfo |-> Empty],
      [NoBody EXCEPT !.target = TRUE] }

\* values of a response's Content-Type header; Empty is no header
JSONContentType == <<"application/json">>
ContentTypes == {Empty, JSONContentType, JSONContentType \o <<"; charset=utf-8">>}

StatusUnauthorized == 401
APIStatusCodes == {StatusOK, 400, StatusUnauthorized}

\* *http.Response; nil is the record with nil = TRUE.
NilResp == [nil |-> TRUE, status |-> 0, token |-> Empty,
            contentType |-> Empty, body |-> NoBody]

Responses(codes) ==
    [nil : {FALSE}, status : codes, token : {Empty} \cup ResponseTokens,
     contentType : {Empty}, body : {NoBody}]

\* A Doer whose responses carry the given status codes: Do returns a
\* response and no error, or an error and no response (as net/http's Client
\* does), or also an error together with a response (as a Doer may).
Transport(codes, errorWithResponse) ==
    [resp : Responses(codes), err : {"nil"}]
        \cup {[resp |-> NilResp, err |-> "transport"]}
        \cup IF errorWithResponse
                THEN [resp : Responses(codes), err : {"transport"}]
                ELSE {}

\* the responses an API can give to the APIClient: with or without a token
\* header, and with the content types and bodies above
APIResponses ==
    Responses(APIStatusCodes)
        \cup [nil : {FALSE}, status : APIStatusCodes, token : {Empty},
              contentType : ContentTypes, body : Bodies]

\* a Doer in front of such an API
APITransport ==
    [resp : APIResponses, err : {"nil"}]
        \cup {[resp |-> NilResp, err |-> "transport"]}
        \cup [resp : Responses(APIStatusCodes), err : {"transport"}]

\* The Doers of the model, by name: net/http's Client in front of a service
\* that answers 200, a Doer that can also return a response with its error,
\* and such a Doer in front of an API.
Do(doer) ==
    CASE doer = "http" -> Transport({StatusOK}, FALSE)
      [] doer = "mock" -> Transport(StatusCodes, TRUE)
      [] doer = "api"  -> APITransport

\* A request as http.NewRequest / httptest.NewRequest builds it: no token
\* header, no Authorization header.
NewRequest(method, url) ==
    [method |-> method, url |-> url,
     hasToken |-> FALSE, token |-> Empty,
     hasAuth |-> FALSE, username |-> Empty, password |-> Empty]

NoReq == NewRequest("", Empty)

\* what an operation returns: err is the error ("nil" is no error) and msg
\* its text where the text is built from values
NoRet == [resp |-> NilResp, err |-> "nil", ok |-> FALSE, val |-> Empty,
          msg |-> Empty]

NoPrev == [op |-> "none", entryToken |-> Empty]

\* endpoint.Resource: the key of a template and the qualifiers.  The
\* templates are those of the package's tests (part_001:15-19); "%v" is one
\* element of a template.  UnknownKey is a key the map does not hold.
Endpoints ==
    (1 :> <<"test">>) @@ (2 :> <<"test/", "%v">>)
        @@ (3 :> <<"test/", "%v", ";", "%v", "/", "%v">>)
UnknownKey == 4
QualifierValues == {7, 12}
QualifierSeqs == UNION { [1..n -> QualifierValues] : n \in 0..MaxQualifiers }
Resources == [Endpoint : DOMAIN Endpoints \cup {UnknownKey}, Qualifiers : QualifierSeqs]

NoResource == [Endpoint |-> 0, Qualifiers |-> << >>]
NoEpoint == [path |-> Empty, err |-> "nil", msg |-> Empty]

-----------------------------------------------------------------------------
(* Pure helpers *)

Digit(d) == CASE d = 0 -> "0" [] d = 1 -> "1" [] d = 2 -> "2" [] d = 3 -> "3"
              [] d = 4 -> "4" [] d = 5 -> "5" [] d = 6 -> "6" [] d = 7 -> "7"
              [] d = 8 -> "8" [] d = 9 -> "9"

\* fmt's %v of a non-negative int
RECURSIVE Itoa(_)
Itoa(n) == IF n < 10 THEN <<Digit(n)>> ELSE Itoa(n \div 10) \o <<Digit(n % 10)>>

\* the username without the account id
Username_NoAccount(user, accountID) == user \o <<";">>

\* setAuth, lines 138-141
Username(user, accountID) ==
    IF accountID # 0 THEN user \o <<";">> \o Itoa(accountID)
                     ELSE user \o <<";">>

\* r.SetBasicAuth(username, password), line 149
SetBasicAuth(r, username, password) ==
    [r EXCEPT !.hasAuth = TRUE, !.username = username, !.password = password]

\* the token header left unset
HeaderSetToken_Skipped(r, v) == r

\* r.Header.Set("token", v), line 145
HeaderSetToken(r, v) == [r EXCEPT !.hasToken = TRUE, !.token = v]

\* r.Header.Get("token") of a response, line 122
HeaderGetToken(r) == r.token

\* compileStatusCheckURL, line 84
StatusCheckURL == BaseURL \o <<"/">> \o API_VERSION \o <<"/">> \o RESOURCE_STATUSCHECK

\* the result without the comparison of the status code
StatusCheckResult_AnyStatus(r, e) ==
    IF e # "nil" THEN [ok |-> FALSE, err |-> e] ELSE [ok |-> TRUE, err |-> "nil"]

\* StatusCheck, lines 67-75
StatusCheckResult(r, e) ==
    IF e # "nil" THEN [ok |-> FALSE, err |-> e]
    ELSE IF r.status # StatusOK THEN [ok |-> FALSE, err |-> "nil"]
    ELSE [ok |-> TRUE, err |-> "nil"]

\* compileTokenURL, part_003:106
TokenURL ==
    BaseURL \o <<"/">> \o API \o <<"/">> \o API_VERSION \o <<"/">> \o RESOURCE_TOKEN

\* the URL without the name of the API
CompileEndpointURL_NoAPI(e) == BaseURL \o <<"/">> \o API_VERSION \o <<"/">> \o e

\* CompileEndpointURL, part_003:234-236
CompileEndpointURL(e) ==
    BaseURL \o <<"/">> \o API \o <<"/">> \o API_VERSION \o <<"/">> \o e

\* a Resource whose Endpoints field is nil
NilEndpoints == << >>

\* a key without a template read as a template with one placeholder
Template_Placeholder(m, k) == IF k \in DOMAIN m THEN m[k] ELSE <<"%v">>

\* r.Endpoints[r.Endpoint]: the template of the key, "" for a key the map
\* does not hold
Template(m, k) == IF k \in DOMAIN m THEN m[k] ELSE Empty

\* strings.Count(e, "%v")
Count(e) == Len(SelectSeq(e, LAMBDA x : x = "%v"))

\* fmt.Sprintf(e, qs...) for a template with as many "%v" as qualifiers
RECURSIVE Sprintf(_, _)
Sprintf(e, qs) ==
    IF e = << >> THEN << >>
    ELSE IF Head(e) = "%v" THEN Itoa(Head(qs)) \o Sprintf(Tail(e), Tail(qs))
    ELSE <<Head(e)>> \o Sprintf(Tail(e), qs)

\* Resource.GetEndpoint, endpoint.go:27-43, of a resource r whose Endpoints
\* field is m
ResourceGetEndpoint(m, r) ==
    LET e == Template(m, r.Endpoint)
        noOfQualifiers == Count(e)
    IN  IF noOfQualifiers # Len(r.Qualifiers)
           THEN [path |-> Empty, err |-> "qualifiers",
                 msg |-> <<"Amount of qualifiers did not match expected. Got ">>
                            \o Itoa(Len(r.Qualifiers)) \o <<", expected ">>
                            \o Itoa(noOfQualifiers)]
           ELSE [path |-> IF noOfQualifiers > 0 THEN Sprintf(e, r.Qualifiers) ELSE e,
                 err |-> "nil", msg |-> Empty]

\* the resolution without the comparison of the counts, for a template
\* that has no more "%v" than there are qualifiers
GetEndpoint_Unchecked(r) ==
    LET e == Template(Endpoints, r.Endpoint)
    IN  [path |-> IF Count(e) <= Len(r.Qualifiers) THEN Sprintf(e, r.Qualifiers) ELSE e,
         err |-> "nil", msg |-> Empty]

\* Resource.GetEndpoint, endpoint.go:27-43, of the resources that share the
\* templates of Endpoints
GetEndpoint(r) == ResourceGetEndpoint(Endpoints, r)

\* APIErrorResponse.HasInformation, common.go:110-115
HasInformation(b) == b.Code # 0 /\ b.Type # Empty /\ b.CombinedInfo # Empty

\* APIErrorResponse.GetAsError, common.go:103-107
GetAsError(b) ==
    <<"Code: ">> \o Itoa(b.Code) \o <<", Type: ">> \o b.Type
        \o <<", Combined info: ">> \o b.CombinedInfo

\* the error made without looking at the body
MakeResponseError_Generic(r) ==
    IF r.status = StatusUnauthorized
       THEN [err |-> "unauthorized", msg |-> <<"Unauthorized. Code: ">> \o Itoa(r.status)]
       ELSE [err |-> "notok",
             msg |-> <<"Response not ok. No information given. Code: ">> \o Itoa(r.status)]

\* MakeResponseError, part_003:239-255
MakeResponseError(r) ==
    IF r.contentType = JSONContentType /\ r.body.apiErr /\ HasInformation(r.body)
       THEN [err |-> "api", msg |-> GetAsError(r.body)]
    ELSE IF r.status = StatusUnauthorized
       THEN [err |-> "unauthorized", msg |-> <<"Unauthorized. Code: ">> \o Itoa(r.status)]
    ELSE [err |-> "notok",
          msg |-> <<"Response not ok. No information given. Code: ">> \o Itoa(r.status)]

\* the outcome that lets every status pass as a success
VerbResult_AnyStatus(r) ==
    IF r.body.target THEN [err |-> "nil", msg |-> Empty]
                     ELSE [err |-> "decode", msg |-> Empty]

\* Get, part_003:132-142, and the same lines of postPut and Delete: the
\* error for a response that is not 200, else the outcome of decoding the
\* body into the caller's model
VerbResult(r) ==
    IF r.status # StatusOK THEN MakeResponseError(r)
    ELSE IF r.body.target THEN [err |-> "nil", msg |-> Empty]
    ELSE [err |-> "decode", msg |-> Empty]

-----------------------------------------------------------------------------
(* Control helpers *)

Goto(p, l)    == pc' = [pc EXCEPT ![p] = l]
Push(p, l)    == stack' = [stack EXCEPT ![p] = <<l>> \o @]
\* return from the current function to the caller's next line
PopTo(p)      == /\ pc' = [pc EXCEPT ![p] = Head(stack[p])]
                 /\ stack' = [stack EXCEPT ![p] = Tail(@)]

\* c.M.Lock(): blocks while another goroutine holds M
Lock(p) == M = 0 /\ M' = p

\* c.M.Unlock() without releasing M
Unlock_Skipped(p) == M' = M

\* c.M.Unlock()
Unlock(p) == M' = 0

Panicked == \E p \in Procs : pc[p] = "panic"

\* A goroutine can take a step: it uses the client and the program has not
\* been terminated by an unrecovered panic.
Runs(p) == p \in callers /\ ~Panicked

\* The history variables entryToken, prevOp and logs are kept for a caller
\* that has the client to itself.
Observed(p) == callers = {p}

\* Logger, client.go:42-45: the entries an operation has emitted, counted by
\* level
NoLogs == [info |-> 0, debug |-> 0]
Info(l) == [l EXCEPT !.info = @ + 1]
Debug_Silent(l) == l
Debug(l) == [l EXCEPT !.debug = @ + 1]
\* goroutine p emits what f adds
Log(p, f) == logs' = IF Observed(p) THEN [logs EXCEPT ![p] = f] ELSE logs

\* Lines at which a goroutine writes Client.Token, and the value it writes.
WritePCs == {"setTokenFromResponse_131", "UnsetAuthToken_161"}
WriteValue(q) == IF pc[q] = "setTokenFromResponse_131" THEN token[q] ELSE Empty

\* The values a read of Client.Token without the mutex can yield: the stored
\* value, and when another goroutine is at a write of a different value, that
\* value or a torn one.
RacyRead(p) ==
    {Token} \cup UNION { {WriteValue(q), Torn} :
                          q \in {x \in Procs \ {p} : pc[x] \in WritePCs
                                                   /\ WriteValue(x) # Token} }


-----------------------------------------------------------------------------
(* Initial states: the client as New returns it, no operation running *)

InitWith(cs, n, ids, doer, urls, apis) ==
    /\ User \in Users /\ Password \in Passwords /\ AccountID \in ids
    /\ HTTPClient = doer
    /\ Token \in {Empty} \cup ConfigTokens
    /\ M = 0
    /\ BaseURL \in urls /\ API \in apis
    /\ callers = cs
    /\ budget = n
    /\ pc = [p \in Procs |-> "idle"]
    /\ op = [p \in Procs |-> "none"]
    /\ stack = [p \in Procs |-> << >>]
    /\ req = [p \in Procs |-> NoReq]
    /\ resp = [p \in Procs |-> NilResp]
    /\ err = [p \in Procs |-> "nil"]
    /\ t = [p \in Procs |-> Empty]
    /\ token = [p \in Procs |-> Empty]
    /\ serr = [p \in Procs |-> "nil"]
    /\ ret = [p \in Procs |-> NoRet]
    /\ entryToken = [p \in Procs |-> Empty]
    /\ prevOp = [p \in Procs |-> NoPrev]
    /\ doCount = [p \in Procs |-> 0]
    /\ responseCodes = << >>
    /\ endpoint = [p \in Procs |-> NoResource]
    /\ epoint = [p \in Procs |-> NoEpoint]
    /\ delegated = [p \in Procs |-> 0]
    /\ logs = [p \in Procs |-> NoLogs]

\* New, client.go:49-66.  All goroutines share the client.  What no
\* synchronisation depends on is fixed: the account id, the APIClient's
\* fields, and a transport that answers with status 200 or fails.
Init == InitWith(Procs, MaxSharedCalls, {0}, "http", {<<"h">>}, {<<"api">>})

\* the same client used by a single caller, for every configuration and
\* every transport outcome
InitSeq == InitWith({1}, MaxCalls, AccountIDs, "mock", BaseURLs, APIs)

\* a single caller that uses the client through an APIClient, in front of an
\* API that answers with error bodies
InitAPI == InitWith({1}, MaxAPICalls, {0}, "api", BaseURLs, APIs)

-----------------------------------------------------------------------------
(* Invocation of an operation by an idle goroutine *)

Begin(p, o, r, l, stk) ==
    /\ Runs(p)
    /\ pc[p] = "idle"
    /\ budget > 0
    /\ budget' = budget - 1
    /\ op' = [op EXCEPT ![p] = o]
    /\ req' = [req EXCEPT ![p] = r]
    /\ pc' = [pc EXCEPT ![p] = l]
    /\ stack' = [stack EXCEPT ![p] = stk]
    /\ entryToken' = [entryToken EXCEPT ![p] = IF Observed(p) THEN Token ELSE Empty]
    /\ doCount' = [doCount EXCEPT ![p] = 0]

\* Call, client.go:70-71: c.setAuth(r)
Call(p) ==
    /\ Begin(p, "Call", NewRequest("GET", <<"url">>), "setAuth_144", <<"Call_72", "done">>)
    /\ UNCHANGED <<config, logs, apivars, Token, M, resp, err, t, token, serr, ret, prevOp>>

\* CallRaw invoked directly, client.go:76-77
CallRaw(p) ==
    /\ Begin(p, "CallRaw", NewRequest("GET", <<"url">>), "CallRaw_78", <<"done">>)
    /\ UNCHANGED <<config, logs, apivars, Token, M, resp, err, t, token, serr, ret, prevOp>>

\* SetNewAPIToken, client.go:101-102: c.setAuth(r)
SetNewAPIToken(p) ==
    /\ Begin(p, "SetNewAPIToken", NewRequest("POST", <<"url">>), "setAuth_144",
             <<"SetNewAPIToken_104", "done">>)
    /\ UNCHANGED <<config, logs, apivars, Token, M, resp, err, t, token, serr, ret, prevOp>>

\* GetAuthToken, client.go:153
GetAuthToken(p) ==
    /\ Begin(p, "GetAuthToken", NoReq, "GetAuthToken_154", <<"done">>)
    /\ UNCHANGED <<config, logs, apivars, Token, M, resp, err, t, token, serr, ret, prevOp>>

\* UnsetAuthToken, client.go:159
UnsetAuthToken(p) ==
    /\ Begin(p, "UnsetAuthToken", NoReq, "UnsetAuthToken_160", <<"done">>)
    /\ UNCHANGED <<config, logs, apivars, Token, M, resp, err, t, token, serr, ret, prevOp>>

\* APIClient.StatusCheck, part_003:51-65: compile the URL, build the
\* request, c.Client.CallRaw(req).  The base URLs of the model are ones that
\* http.NewRequest accepts, so the return at line 61 is not taken.
StatusCheck(p) ==
    /\ IF BaseURL = Empty
          THEN /\ Begin(p, "StatusCheck", NoReq, "done", << >>)
               /\ ret' = [ret EXCEPT ![p] = [NoRet EXCEPT !.ok = FALSE, !.err = "baseurl"]]
               /\ delegated' = delegated
          ELSE /\ Begin(p, "StatusCheck", NewRequest("GET", StatusCheckURL),
                        "CallRaw_78", <<"StatusCheck_67", "done">>)
               /\ ret' = ret
               /\ delegated' = [delegated EXCEPT ![p] = 1]
    /\ UNCHANGED <<config, logs, responseCodes, endpoint, epoint,
                   Token, M, resp, err, t, token, serr, prevOp>>

-----------------------------------------------------------------------------
(* setAuth, client.go:137-150.  Client.Token is read twice, at line 144 and *)
(* at line 145, both times without the mutex.                               *)

setAuth_144(p) ==
    /\ Runs(p)
    /\ pc[p] = "setAuth_144"
    /\ \E v \in RacyRead(p) :
          IF v # Empty
             THEN /\ Goto(p, "setAuth_145")
                  /\ UNCHANGED <<req, stack>>
             ELSE /\ req' = [req EXCEPT ![p] =
                                SetBasicAuth(@, Username(User, AccountID), Password)]
                  /\ PopTo(p)
    /\ UNCHANGED <<config, logs, apivars, Token, M, op, resp, err, t, token, serr, ret,
                   entryToken, prevOp, doCount, budget>>

\* line 146 clearing the field c.Password instead of the local password
setAuth_145_ClearsField(p) ==
    /\ Runs(p)
    /\ pc[p] = "setAuth_145"
    /\ \E v \in RacyRead(p) :
          req' = [req EXCEPT ![p] =
                     SetBasicAuth(HeaderSetToken(@, v), Username(User, AccountID), Empty)]
    /\ Password' = Empty
    /\ PopTo(p)
    /\ UNCHANGED <<User, AccountID, HTTPClient, BaseURL, API, callers, logs,
                   apivars, Token, M, op, resp, err, t, token, serr, ret,
                   entryToken, prevOp, doCount, budget>>

setAuth_145(p) ==
    /\ Runs(p)
    /\ pc[p] = "setAuth_145"
    /\ \E v \in RacyRead(p) :
          req' = [req EXCEPT ![p] =
                     SetBasicAuth(HeaderSetToken(@, v), Username(User, AccountID), Empty)]
    /\ PopTo(p)
    /\ UNCHANGED <<config, logs, apivars, Token, M, op, resp, err, t, token, serr, ret,
                   entryToken, prevOp, doCount, budget>>

\* Call, client.go:72: return c.CallRaw(r)
Call_72(p) ==
    /\ Runs(p)
    /\ pc[p] = "Call_72"
    /\ Goto(p, "CallRaw_78")
    /\ UNCHANGED <<config, logs, apivars, Token, M, op, stack, req, resp, err, t, token, serr, ret,
                   entryToken, prevOp, doCount, budget>>

-----------------------------------------------------------------------------
(* CallRaw, client.go:76-97 *)

\* lines 78-84: the transport call, then the log line that dereferences
\* resp.  req[p] is the request as the transport receives it; its headers are
\* not read again and the model forgets them.
\* lines 77-84: Info before the transport call, Debug of its error, Info of
\* the response's status (not reached without a response)
CallRawLogs(l, o) ==
    LET before == Info(l)
        failed == IF o.err # "nil" THEN Debug(before) ELSE before
    IN  IF o.resp.nil THEN failed ELSE Info(failed)

CallRaw_78(p) ==
    /\ Runs(p)
    /\ pc[p] = "CallRaw_78"
    /\ \E o \in Do(HTTPClient) :
          /\ resp' = [resp EXCEPT ![p] = o.resp]
          /\ err' = [err EXCEPT ![p] = o.err]
          /\ Goto(p, IF o.resp.nil THEN "panic" ELSE "CallRaw_87")
          /\ Log(p, CallRawLogs(logs[p], o))
    /\ req' = [req EXCEPT ![p] = NoReq]
    /\ doCount' = [doCount EXCEPT ![p] = @ + 1]
    /\ UNCHANGED <<config, apivars, Token, M, op, stack, t, token, serr, ret,
                   entryToken, prevOp, budget>>

\* line 87: c.M.Lock()
CallRaw_87(p) ==
    /\ Runs(p)
    /\ pc[p] = "CallRaw_87"
    /\ Lock(p)
    /\ Goto(p, "CallRaw_88")
    /\ UNCHANGED <<config, logs, apivars, Token, op, stack, req, resp, err, t, token, serr, ret,
                   entryToken, prevOp, doCount, budget>>

\* line 88: t := c.Token
CallRaw_88(p) ==
    /\ Runs(p)
    /\ pc[p] = "CallRaw_88"
    /\ t' = [t EXCEPT ![p] = Token]
    /\ Goto(p, "CallRaw_89")
    /\ UNCHANGED <<config, logs, apivars, Token, M, op, stack, req, resp, err, token, serr, ret,
                   entryToken, prevOp, doCount, budget>>

\* no harvesting at all
Harvests_Never(snapshot) == FALSE

\* line 91: the token is harvested when the snapshot is empty
Harvests(snapshot) == snapshot = Empty

\* setTokenFromResponse, lines 122-128, entered from return address l: the
\* header is read; without a token the function logs and returns an error
EnterSetTokenFromResponse(p, r, l) ==
    /\ token' = [token EXCEPT ![p] = HeaderGetToken(r)]
    /\ IF HeaderGetToken(r) = Empty
          THEN /\ serr' = [serr EXCEPT ![p] = "notoken"]
               /\ Log(p, Debug(logs[p]))
               /\ Goto(p, l)
               /\ stack' = stack
          ELSE /\ serr' = serr
               /\ logs' = logs
               /\ Goto(p, "setTokenFromResponse_130")
               /\ Push(p, l)

\* lines 89-93: c.M.Unlock(); if t == "" { c.setTokenFromResponse(resp) }
\* (t is not used after line 91)
CallRaw_89(p) ==
    /\ Runs(p)
    /\ pc[p] = "CallRaw_89"
    /\ Unlock(p)
    /\ IF Harvests(t[p])
          THEN EnterSetTokenFromResponse(p, resp[p], "CallRaw_96")
          ELSE /\ Goto(p, "CallRaw_96")
               /\ UNCHANGED <<stack, token, serr, logs>>
    /\ t' = [t EXCEPT ![p] = Empty]
    /\ UNCHANGED <<config, apivars, Token, op, req, resp, err, ret,
                   entryToken, prevOp, doCount, budget>>

\* line 96: return resp, err
CallRawReturn(r, e) == [NoRet EXCEPT !.resp = r, !.err = e]

\* (the error of setTokenFromResponse is dropped at line 93)
CallRaw_96(p) ==
    /\ Runs(p)
    /\ pc[p] = "CallRaw_96"
    /\ ret' = [ret EXCEPT ![p] = CallRawReturn(resp[p], err[p])]
    /\ serr' = [serr EXCEPT ![p] = "nil"]
    /\ token' = [token EXCEPT ![p] = Empty]
    /\ PopTo(p)
    /\ UNCHANGED <<config, logs, apivars, Token, M, op, req, resp, err, t,
                   entryToken, prevOp, doCount, budget>>

-----------------------------------------------------------------------------
(* setTokenFromResponse, client.go:130-134 *)

setTokenFromResponse_130(p) ==
    /\ Runs(p)
    /\ pc[p] = "setTokenFromResponse_130"
    /\ Lock(p)
    /\ Goto(p, "setTokenFromResponse_131")
    /\ UNCHANGED <<config, logs, apivars, Token, op, stack, req, resp, err, t, token, serr, ret,
                   entryToken, prevOp, doCount, budget>>

\* line 131 storing the password that was sent instead of the header value
setTokenFromResponse_131_StoresPassword(p) ==
    /\ Runs(p)
    /\ pc[p] = "setTokenFromResponse_131"
    /\ Token' = Password
    /\ Goto(p, "setTokenFromResponse_132")
    /\ UNCHANGED <<config, logs, apivars, M, op, stack, req, resp, err, t, token, serr, ret,
                   entryToken, prevOp, doCount, budget>>

setTokenFromResponse_131(p) ==
    /\ Runs(p)
    /\ pc[p] = "setTokenFromResponse_131"
    /\ Token' = token[p]
    /\ Goto(p, "setTokenFromResponse_132")
    /\ UNCHANGED <<config, logs, apivars, M, op, stack, req, resp, err, t, token, serr, ret,
                   entryToken, prevOp, doCount, budget>>

setTokenFromResponse_132(p) ==
    /\ Runs(p)
    /\ pc[p] = "setTokenFromResponse_132"
    /\ Unlock(p)
    /\ serr' = [serr EXCEPT ![p] = "nil"]
    /\ PopTo(p)
    /\ UNCHANGED <<config, logs, apivars, Token, op, req, resp, err, t, token, ret,
                   entryToken, prevOp, doCount, budget>>

-----------------------------------------------------------------------------
(* SetNewAPIToken, client.go:101-119 *)

\* line 104: resp, err := c.Call(r), which applies setAuth a second time
SetNewAPIToken_104(p) ==
    /\ Runs(p)
    /\ pc[p] = "SetNewAPIToken_104"
    /\ Goto(p, "setAuth_144")
    /\ stack' = [stack EXCEPT ![p] = <<"Call_72", "SetNewAPIToken_106">> \o @]
    /\ UNCHANGED <<config, logs, apivars, Token, M, op, req, resp, err, t, token, serr, ret,
                   entryToken, prevOp, doCount, budget>>

\* the call made once more after it has returned an error
SetNewAPIToken_106_Retrying(p) ==
    /\ Runs(p)
    /\ pc[p] = "SetNewAPIToken_106"
    /\ IF ret[p].err # "nil" /\ doCount[p] < 2
          THEN /\ Goto(p, "setAuth_144")
               /\ stack' = [stack EXCEPT ![p] = <<"Call_72", "SetNewAPIToken_106">> \o @]
               /\ UNCHANGED <<ret, token, serr, logs>>
          ELSE IF ret[p].err # "nil" \/ ret[p].resp.nil
          THEN /\ ret' = [ret EXCEPT ![p] = [NoRet EXCEPT !.err = ret[p].err]]
               /\ PopTo(p)
               /\ UNCHANGED <<token, serr, logs>>
          ELSE /\ EnterSetTokenFromResponse(p, ret[p].resp, "SetNewAPIToken_113")
               /\ ret' = ret
    /\ UNCHANGED <<config, apivars, Token, M, op, req, resp, err, t,
                   entryToken, prevOp, doCount, budget>>

\* lines 106-111: log and return the error of the call, else
\* err = c.setTokenFromResponse(resp)
SetNewAPIToken_106(p) ==
    /\ Runs(p)
    /\ pc[p] = "SetNewAPIToken_106"
    /\ IF ret[p].err # "nil"
          THEN /\ ret' = [ret EXCEPT ![p] = [NoRet EXCEPT !.err = ret[p].err]]
               /\ Log(p, Debug(logs[p]))
               /\ PopTo(p)
               /\ UNCHANGED <<token, serr>>
          ELSE IF ret[p].resp.nil
          THEN /\ Goto(p, "panic")
               /\ UNCHANGED <<ret, stack, token, serr, logs>>
          ELSE /\ EnterSetTokenFromResponse(p, ret[p].resp, "SetNewAPIToken_113")
               /\ ret' = ret
    /\ UNCHANGED <<config, apivars, Token, M, op, req, resp, err, t,
                   entryToken, prevOp, doCount, budget>>

\* lines 113-118: log and return the error of setTokenFromResponse, or nil
SetNewAPIToken_113(p) ==
    /\ Runs(p)
    /\ pc[p] = "SetNewAPIToken_113"
    /\ ret' = [ret EXCEPT ![p] = [NoRet EXCEPT !.err = serr[p]]]
    /\ Log(p, IF serr[p] # "nil" THEN Debug(logs[p]) ELSE logs[p])
    /\ serr' = [serr EXCEPT ![p] = "nil"]
    /\ token' = [token EXCEPT ![p] = Empty]
    /\ PopTo(p)
    /\ UNCHANGED <<config, apivars, Token, M, op, req, resp, err, t,
                   entryToken, prevOp, doCount, budget>>

-----------------------------------------------------------------------------
(* GetAuthToken, client.go:153-155: return c.Token, without the mutex *)

GetAuthToken_154(p) ==
    /\ Runs(p)
    /\ pc[p] = "GetAuthToken_154"
    /\ \E v \in RacyRead(p) :
          ret' = [ret EXCEPT ![p] = [NoRet EXCEPT !.val = v]]
    /\ PopTo(p)
    /\ UNCHANGED <<config, logs, apivars, Token, M, op, req, resp, err, t, token, serr,
                   entryToken, prevOp, doCount, budget>>

-----------------------------------------------------------------------------
(* UnsetAuthToken, client.go:159-163 *)

UnsetAuthToken_160(p) ==
    /\ Runs(p)
    /\ pc[p] = "UnsetAuthToken_160"
    /\ Lock(p)
    /\ Goto(p, "UnsetAuthToken_161")
    /\ UNCHANGED <<config, logs, apivars, Token, op, stack, req, resp, err, t, token, serr, ret,
                   entryToken, prevOp, doCount, budget>>

\* line 161 leaving the token as it is
UnsetAuthToken_161_Keep(p) ==
    /\ Runs(p)
    /\ pc[p] = "UnsetAuthToken_161"
    /\ Token' = Token
    /\ Goto(p, "UnsetAuthToken_162")
    /\ UNCHANGED <<config, logs, apivars, M, op, stack, req, resp, err, t, token, serr, ret,
                   entryToken, prevOp, doCount, budget>>

\* line 161: c.Token = ""
UnsetAuthToken_161(p) ==
    /\ Runs(p)
    /\ pc[p] = "UnsetAuthToken_161"
    /\ Token' = Empty
    /\ Goto(p, "UnsetAuthToken_162")
    /\ UNCHANGED <<config, logs, apivars, M, op, stack, req, resp, err, t, token, serr, ret,
                   entryToken, prevOp, doCount, budget>>

UnsetAuthToken_162(p) ==
    /\ Runs(p)
    /\ pc[p] = "UnsetAuthToken_162"
    /\ Unlock(p)
    /\ ret' = [ret EXCEPT ![p] = NoRet]
    /\ PopTo(p)
    /\ UNCHANGED <<config, logs, apivars, Token, op, req, resp, err, t, token, serr,
                   entryToken, prevOp, doCount, budget>>

-----------------------------------------------------------------------------
(* APIClient.StatusCheck after the raw call, part_003:67-75 *)

StatusCheck_67(p) ==
    /\ Runs(p)
    /\ pc[p] = "StatusCheck_67"
    /\ LET res == StatusCheckResult(ret[p].resp, ret[p].err)
       IN  ret' = [ret EXCEPT ![p] = [NoRet EXCEPT !.ok = res.ok, !.err = res.err]]
    /\ PopTo(p)
    /\ UNCHANGED <<config, logs, apivars, Token, M, op, req, resp, err, t, token, serr,
                   entryToken, prevOp, doCount, budget>>

-----------------------------------------------------------------------------
(* APIClient.SetNewAPIToken, part_003:88-99 *)

\* the test of the base URL alone
TokenURLError_BaseURLOnly == BaseURL = Empty

\* compileTokenURL, line 102: no URL without a base URL or without an API name
TokenURLError == BaseURL = Empty \/ API = Empty

\* compileTokenURL fails, or the POST request is built and passed on:
\* return c.Client.SetNewAPIToken(req)
APIClient_SetNewAPIToken(p) ==
    /\ IF TokenURLError
          THEN /\ Begin(p, "APIClient.SetNewAPIToken", NoReq, "done", << >>)
               /\ ret' = [ret EXCEPT ![p] = [NoRet EXCEPT !.err = "tokenurl"]]
               /\ delegated' = delegated
          ELSE /\ Begin(p, "APIClient.SetNewAPIToken", NewRequest("POST", TokenURL),
                        "setAuth_144", <<"SetNewAPIToken_104", "done">>)
               /\ ret' = ret
               /\ delegated' = [delegated EXCEPT ![p] = 1]
    /\ UNCHANGED <<config, logs, responseCodes, endpoint, epoint,
                   Token, M, resp, err, t, token, serr, prevOp>>

-----------------------------------------------------------------------------
(* APIClient.UnsetAuthToken: c.Client.UnsetAuthToken(), a method of the     *)
(* APICaller interface (part_003:40) *)

APIClient_UnsetAuthToken(p) ==
    /\ Begin(p, "APIClient.UnsetAuthToken", NoReq, "UnsetAuthToken_160", <<"done">>)
    /\ delegated' = [delegated EXCEPT ![p] = 1]
    /\ UNCHANGED <<config, logs, responseCodes, endpoint, epoint,
                   Token, M, resp, err, t, token, serr, ret, prevOp>>

-----------------------------------------------------------------------------
(* The verb operations of the APIClient: Get (part_003:110-143), Post and  *)
(* Put (146-153, both postPut, 156-197) and Delete (200-230).  Query and   *)
(* header modifiers change neither the path nor the authentication of the  *)
(* request and are left out.  A response has a body, as net/http's Client  *)
(* guarantees.                                                             *)

\* the operation is invoked with an endpoint
Invoke(p, o, l) ==
    /\ Begin(p, o, NoReq, l, <<"done">>)
    /\ \E e \in Resources : endpoint' = [endpoint EXCEPT ![p] = e]
    /\ UNCHANGED <<config, logs, responseCodes, epoint, delegated,
                   Token, M, resp, err, t, token, serr, ret, prevOp>>

Get(p)    == Invoke(p, "Get", "Get_111")
Post(p)   == Invoke(p, "Post", "postPut_157")
Put(p)    == Invoke(p, "Put", "postPut_157")
Delete(p) == Invoke(p, "Delete", "Delete_201")

\* the error of GetEndpoint not looked at
Resolve_Proceeds(p, l, next) ==
    /\ Runs(p)
    /\ pc[p] = l
    /\ epoint' = [epoint EXCEPT ![p] = GetEndpoint(endpoint[p])]
    /\ Goto(p, next)
    /\ UNCHANGED <<config, logs, responseCodes, endpoint, delegated, Token, M, op, req,
                   resp, err, t, token, serr, entryToken, prevOp, doCount, budget,
                   ret, stack>>

\* epoint, err := endpoint.GetEndpoint(); if err != nil { return err }
Resolve(p, l, next) ==
    /\ Runs(p)
    /\ pc[p] = l
    /\ LET e == GetEndpoint(endpoint[p])
       IN  /\ epoint' = [epoint EXCEPT ![p] = e]
           /\ IF e.err # "nil"
                 THEN /\ ret' = [ret EXCEPT ![p] =
                                    [NoRet EXCEPT !.err = e.err, !.msg = e.msg]]
                      /\ PopTo(p)
                 ELSE /\ Goto(p, next)
                      /\ UNCHANGED <<ret, stack>>
    /\ UNCHANGED <<config, logs, responseCodes, endpoint, delegated, Token, M, op, req,
                   resp, err, t, token, serr, entryToken, prevOp, doCount, budget>>

\* the request for c.CompileEndpointURL(epoint) is built and passed on:
\* resp, err := c.Client.Call(req).  The endpoint is not used after this.
Send(p, l, method, back) ==
    /\ Runs(p)
    /\ pc[p] = l
    /\ req' = [req EXCEPT ![p] = NewRequest(method, CompileEndpointURL(epoint[p].path))]
    /\ delegated' = [delegated EXCEPT ![p] = @ + 1]
    /\ endpoint' = [endpoint EXCEPT ![p] = NoResource]
    /\ epoint' = [epoint EXCEPT ![p] = NoEpoint]
    /\ Goto(p, "setAuth_144")
    /\ stack' = [stack EXCEPT ![p] = <<"Call_72", back>> \o @]
    /\ UNCHANGED <<config, logs, responseCodes, Token, M, op, resp, err, t, token, serr,
                   ret, entryToken, prevOp, doCount, budget>>

\* the lines after the call: the error of the call is returned, else the
\* result for the response
Receive(p, l) ==
    /\ Runs(p)
    /\ pc[p] = l
    /\ LET res == IF ret[p].err # "nil"
                     THEN [err |-> ret[p].err, msg |-> Empty]
                     ELSE VerbResult(ret[p].resp)
       IN  ret' = [ret EXCEPT ![p] = [NoRet EXCEPT !.err = res.err, !.msg = res.msg]]
    /\ PopTo(p)
    /\ UNCHANGED <<config, logs, apivars, Token, M, op, req, resp, err, t, token, serr,
                   entryToken, prevOp, doCount, budget>>

Get_111(p) == Resolve(p, "Get_111", "Get_116")

\* lines 116-125
Get_116(p) == Send(p, "Get_116", "GET", "Get_126")

\* line 126: defer resp.Body.Close(), before err is looked at: a nil resp
\* is dereferenced
Get_126(p) ==
    /\ Runs(p)
    /\ pc[p] = "Get_126"
    /\ Goto(p, IF ret[p].resp.nil THEN "panic" ELSE "Get_128")
    /\ UNCHANGED <<config, logs, apivars, Token, M, op, stack, req, resp, err, t, token,
                   serr, ret, entryToken, prevOp, doCount, budget>>

\* lines 128-142
Get_128(p) == Receive(p, "Get_128")

postPut_157(p) == Resolve(p, "postPut_157", "postPut_163")

\* lines 163-167: body, err := json.Marshal(payload); a payload that cannot
\* be marshalled ends the operation
postPut_163(p) ==
    /\ Runs(p)
    /\ pc[p] = "postPut_163"
    /\ \E marshals \in BOOLEAN :
          IF marshals
             THEN /\ Goto(p, "postPut_169")
                  /\ UNCHANGED <<ret, stack, endpoint, epoint>>
             ELSE /\ ret' = [ret EXCEPT ![p] = [NoRet EXCEPT !.err = "marshal"]]
                  /\ endpoint' = [endpoint EXCEPT ![p] = NoResource]
                  /\ epoint' = [epoint EXCEPT ![p] = NoEpoint]
                  /\ PopTo(p)
    /\ UNCHANGED <<config, logs, responseCodes, delegated, Token, M, op, req, resp, err,
                   t, token, serr, entryToken, prevOp, doCount, budget>>

\* lines 169-177
postPut_169(p) ==
    Send(p, "postPut_169", IF op[p] = "Post" THEN "POST" ELSE "PUT", "postPut_178")

\* lines 178-196
postPut_178(p) == Receive(p, "postPut_178")

Delete_201(p) == Resolve(p, "Delete_201", "Delete_205")

\* lines 205-213
Delete_205(p) == Send(p, "Delete_205", "DELETE", "Delete_214")

\* lines 214-229
Delete_214(p) == Receive(p, "Delete_214")

-----------------------------------------------------------------------------
(* The operation has returned; the goroutine goes on to its next one *)

Leave(p, prev) ==
    /\ Runs(p)
    /\ pc[p] = "done"
    /\ Goto(p, "idle")
    /\ prevOp' = [prevOp EXCEPT ![p] = prev]
    /\ op' = [op EXCEPT ![p] = "none"]
    /\ req' = [req EXCEPT ![p] = NoReq]
    /\ resp' = [resp EXCEPT ![p] = NilResp]
    /\ err' = [err EXCEPT ![p] = "nil"]
    /\ t' = [t EXCEPT ![p] = Empty]
    /\ token' = [token EXCEPT ![p] = Empty]
    /\ serr' = [serr EXCEPT ![p] = "nil"]
    /\ ret' = [ret EXCEPT ![p] = NoRet]
    /\ entryToken' = [entryToken EXCEPT ![p] = Empty]
    /\ doCount' = [doCount EXCEPT ![p] = 0]
    /\ endpoint' = [endpoint EXCEPT ![p] = NoResource]
    /\ epoint' = [epoint EXCEPT ![p] = NoEpoint]
    /\ delegated' = [delegated EXCEPT ![p] = 0]
    /\ logs' = [logs EXCEPT ![p] = NoLogs]
    /\ UNCHANGED <<config, Token, M, stack, budget>>

\* the status code an operation of the APIClient has observed: that of the
\* response it got, 0 without one
ObservedCode_Zero(r) == 0

ObservedCode(r) == IF r.nil THEN 0 ELSE r.status

\* the history with one more entry
RecordCode(codes, code) == Append(codes, code)

\* APIClient.GetResponseCodes and APIClient.GetLastResponseCode
GetResponseCodes == responseCodes
GetLastResponseCode ==
    IF responseCodes = << >> THEN 0 ELSE responseCodes[Len(responseCodes)]

\* operations of the APIClient that record the status code they observe
RecordingOps == {"StatusCheck", "Get", "Post", "Put", "Delete"}

\* the operation returns to the caller of the APIClient, the observed code
\* recorded
RecordedReturn(p) ==
    /\ Leave(p, NoPrev)
    /\ responseCodes' = IF op[p] \in RecordingOps
                            THEN RecordCode(responseCodes, ObservedCode(resp[p]))
                            ELSE responseCodes

\* the operation returns to a caller that uses the Client
Return(p) ==
    /\ Leave(p, IF Observed(p) THEN [op |-> op[p], entryToken |-> entryToken[p]]
                               ELSE NoPrev)
    /\ UNCHANGED responseCodes

-----------------------------------------------------------------------------

Next ==
    \E p \in Procs :
        \/ Call(p) \/ CallRaw(p) \/ SetNewAPIToken(p)
        \/ GetAuthToken(p) \/ UnsetAuthToken(p) \/ StatusCheck(p)
        \/ setAuth_144(p) \/ setAuth_145(p) \/ Call_72(p)
        \/ CallRaw_78(p) \/ CallRaw_87(p) \/ CallRaw_88(p) \/ CallRaw_89(p)
        \/ CallRaw_96(p)
        \/ setTokenFromResponse_130(p) \/ setTokenFromResponse_131(p)
        \/ setTokenFromResponse_132(p)
        \/ SetNewAPIToken_104(p) \/ SetNewAPIToken_106(p) \/ SetNewAPIToken_113(p)
        \/ GetAuthToken_154(p)
        \/ UnsetAuthToken_160(p) \/ UnsetAuthToken_161(p) \/ UnsetAuthToken_162(p)
        \/ StatusCheck_67(p)
        \/ Return(p)

\* goroutines sharing one client
Spec == Init /\ [][Next]_vars

\* one caller
SpecSeq == InitSeq /\ [][Next]_vars

\* the steps of goroutine p inside an operation it has been asked to run
Progress(p) ==
    \/ setAuth_144(p) \/ setAuth_145(p) \/ Call_72(p)
    \/ CallRaw_78(p) \/ CallRaw_87(p) \/ CallRaw_88(p) \/ CallRaw_89(p)
    \/ CallRaw_96(p)
    \/ setTokenFromResponse_130(p) \/ setTokenFromResponse_131(p)
    \/ setTokenFromResponse_132(p)
    \/ SetNewAPIToken_104(p) \/ SetNewAPIToken_106(p) \/ SetNewAPIToken_113(p)
    \/ GetAuthToken_154(p)
    \/ UnsetAuthToken_160(p) \/ UnsetAuthToken_161(p) \/ UnsetAuthToken_162(p)
    \/ StatusCheck_67(p)

\* The Go scheduler runs every goroutine that can run, the transport
\* returns (client.go:78), and a goroutine blocked in c.M.Lock() goes on once
\* M stays free.
Fairness == \A p \in Procs : WF_vars(Progress(p))

\* goroutines sharing one client, each of them scheduled
SpecLive == Init /\ [][Next]_vars /\ Fairness

\* the operations of the APIClient and the steps of the Client they run
NextAPI ==
    \E p \in Procs :
        \/ StatusCheck(p) \/ APIClient_SetNewAPIToken(p)
        \/ APIClient_UnsetAuthToken(p)
        \/ Get(p) \/ Post(p) \/ Put(p) \/ Delete(p)
        \/ Get_111(p) \/ Get_116(p) \/ Get_126(p) \/ Get_128(p)
        \/ postPut_157(p) \/ postPut_163(p) \/ postPut_169(p) \/ postPut_178(p)
        \/ Delete_201(p) \/ Delete_205(p) \/ Delete_214(p)
        \/ setAuth_144(p) \/ setAuth_145(p) \/ Call_72(p)
        \/ CallRaw_78(p) \/ CallRaw_87(p) \/ CallRaw_88(p) \/ CallRaw_89(p)
        \/ CallRaw_96(p)
        \/ setTokenFromResponse_130(p) \/ setTokenFromResponse_131(p)
        \/ setTokenFromResponse_132(p)
        \/ SetNewAPIToken_104(p) \/ SetNewAPIToken_106(p) \/ SetNewAPIToken_113(p)
        \/ UnsetAuthToken_160(p) \/ UnsetAuthToken_161(p) \/ UnsetAuthToken_162(p)
        \/ StatusCheck_67(p)
        \/ RecordedReturn(p)

\* one caller of an APIClient
SpecAPI == InitAPI /\ [][NextAPI]_vars

-----------------------------------------------------------------------------
(* Properties *)

\* the write of setTokenFromResponse reached from CallRaw's harvest, line 93
AtHarvestWrite(p) ==
    /\ pc[p] = "setTokenFromResponse_131"
    /\ Head(stack[p]) = "CallRaw_96"

\* the request of operation o is about to be passed to the transport
AtTransport(p, o) == pc[p] = "CallRaw_78" /\ op[p] = o

\* operation o has returned to its caller
Returned(p, o) == pc[p] = "done" /\ op[p] = o

\* the lines at which Client.Token is read or written
TokenAccessPCs ==
    {"setAuth_144", "setAuth_145", "CallRaw_88", "GetAuthToken_154"} \cup WritePCs

\* the lines a goroutine is at between c.M.Lock() and c.M.Unlock()
LockedPCs ==
    {"CallRaw_88", "CallRaw_89", "setTokenFromResponse_131",
     "setTokenFromResponse_132", "UnsetAuthToken_161", "UnsetAuthToken_162"}

\* C1: in every interleaving, the harvesting step of CallRaw writes the
\* stored token only when no token is held at the moment of the write.
C1_HarvestNeverReplacesToken ==
    \A p \in Procs : AtHarvestWrite(p) => Token = Empty

\* C2: every read and every write of Client.Token by a Client operation
\* happens while the goroutine holds the mutex M.
C2_TokenAccessUnderMutex ==
    \A p \in Procs : pc[p] \in TokenAccessPCs => M = p

\* C3: single caller: when the stored token is empty at the invocation of
\* Call or CallRaw and the response carries a non-empty token header, the
\* stored token equals that header value once the call has returned.
C3_HarvestWhenEmpty ==
    \A p \in Procs :
        /\ Returned(p, "Call") \/ Returned(p, "CallRaw")
        /\ entryToken[p] = Empty
        /\ ~resp[p].nil /\ resp[p].token # Empty
        => Token = resp[p].token

C3_Witness ==
    \E p \in Procs :
        /\ Returned(p, "Call")
        /\ entryToken[p] = Empty
        /\ ~resp[p].nil /\ resp[p].token \in ResponseTokens
        /\ Token = resp[p].token

\* the decimal digits of the account ids of the model, written out
AccountDigits(n) == IF n = 12 THEN <<"1", "2">> ELSE <<"0">>

\* C4: with an empty token, the request Call sends carries Basic
\* authentication with username "<User>;" (AccountID 0) or
\* "<User>;<AccountID>", the configured password, and no token header.
C4_BasicAuthWithoutToken ==
    \A p \in Procs :
        AtTransport(p, "Call") /\ entryToken[p] = Empty =>
            /\ req[p].hasAuth
            /\ req[p].username =
                  IF AccountID = 0 THEN User \o <<";">>
                                   ELSE User \o <<";">> \o AccountDigits(AccountID)
            /\ req[p].password = Password
            /\ ~req[p].hasToken

C4_Witness ==
    \E p \in Procs :
        /\ AtTransport(p, "Call") /\ entryToken[p] = Empty
        /\ AccountID = 12 /\ Password # Empty
        /\ req[p].username = <<"u", ";", "1", "2">>
        /\ req[p].password = Password

\* C5: with a non-empty token, the request Call sends has its token header
\* equal to the stored token and an empty Basic-auth password, whatever
\* AccountID and Password are.
C5_TokenAuth ==
    \A p \in Procs :
        AtTransport(p, "Call") /\ entryToken[p] # Empty =>
            /\ req[p].hasToken /\ req[p].token = Token
            /\ req[p].hasAuth /\ req[p].password = Empty

C5_Witness ==
    \E p \in Procs :
        /\ AtTransport(p, "Call") /\ entryToken[p] # Empty
        /\ AccountID # 0 /\ Password # Empty
        /\ req[p].hasToken /\ req[p].token = Token /\ Token # Empty
        /\ req[p].password = Empty

\* C6: SetNewAPIToken returns an error if the transport fails or the
\* response has no token header; otherwise it returns nil and the stored
\* token equals the response's token header, whether or not a token was held.
C6_SetNewAPITokenOutcome ==
    \A p \in Procs :
        op[p] = "SetNewAPIToken" =>
            /\ pc[p] # "panic"
            /\ pc[p] = "done" =>
                  IF err[p] # "nil" \/ resp[p].token = Empty
                     THEN ret[p].err # "nil"
                     ELSE ret[p].err = "nil" /\ Token = resp[p].token

\* C7: after UnsetAuthToken returns the stored token is empty, and the next
\* Call of the same caller sends the configured password and no token header,
\* whatever the token was before.
C7_UnsetForcesPassword ==
    \A p \in Procs :
        /\ Returned(p, "UnsetAuthToken") => Token = Empty
        /\ AtTransport(p, "Call") /\ prevOp[p].op = "UnsetAuthToken" =>
              /\ req[p].hasAuth /\ req[p].password = Password
              /\ ~req[p].hasToken

C7_Witness ==
    \E p \in Procs :
        /\ AtTransport(p, "Call")
        /\ prevOp[p].op = "UnsetAuthToken" /\ prevOp[p].entryToken # Empty
        /\ Password # Empty
        /\ req[p].password = Password /\ ~req[p].hasToken

\* C8: a goroutine executing the transport call does not hold M, and M is
\* held only around the single statement that reads or writes the token.
C8_NoLockAcrossTransport ==
    \A p \in Procs :
        /\ pc[p] = "CallRaw_78" => M # p
        /\ M = p => pc[p] \in LockedPCs

C8_Witness ==
    \E p, q \in Procs :
        /\ p # q
        /\ pc[p] = "CallRaw_78"
        /\ M = q /\ pc[q] \in WritePCs

\* C9: CallRaw returns exactly the (response, error) pair of the transport
\* for every transport outcome, and completes normally also when the
\* transport returns an error and no response.
C9_CallRawReturnsTransportPair ==
    \A p \in Procs :
        op[p] = "CallRaw" =>
            /\ pc[p] # "panic"
            /\ pc[p] = "done" => ret[p].resp = resp[p] /\ ret[p].err = err[p]

\* C10: StatusCheck returns (true, nil) exactly when the raw call succeeds
\* with status 200, (false, nil) when it succeeds with another status,
\* (false, err) when BaseURL is empty or the raw call returns an error; it
\* uses CallRaw (an unauthenticated request), never Call.
C10_StatusCheck ==
    \A p \in Procs :
        /\ Returned(p, "StatusCheck") =>
              /\ ret[p].ok <=> /\ BaseURL # Empty
                               /\ doCount[p] = 1
                               /\ err[p] = "nil" /\ resp[p].status = 200
              /\ BaseURL = Empty => ret[p].err # "nil" /\ doCount[p] = 0
              /\ BaseURL # Empty /\ err[p] # "nil" => ret[p].err = err[p]
              /\ BaseURL # Empty /\ err[p] = "nil" => ret[p].err = "nil"
        /\ op[p] = "StatusCheck" =>
              /\ pc[p] \notin {"setAuth_144", "setAuth_145", "Call_72"}
              /\ ~req[p].hasAuth /\ ~req[p].hasToken

C10_Witness ==
    \E p \in Procs :
        /\ Returned(p, "StatusCheck")
        /\ doCount[p] = 1 /\ err[p] = "nil" /\ resp[p].status = 400
        /\ ~ret[p].ok /\ ret[p].err = "nil"

\* operation o returns to its caller in this step
Returns(p, o) == op[p] = o /\ pc[p] = "done" /\ pc'[p] = "idle"

\* the history gains exactly the entry c in this step
Appends(c) == responseCodes' = responseCodes \o <<c>>

\* C11: every invocation of APIClient.StatusCheck comes to its return, and
\* appends exactly one entry to the response-code history, at no other step
\* than its return: the status code of the response when the transport gave
\* one (also together with an error), 0 when no response was obtained.
C11_StatusCheckRecords ==
    [][\A p \in Procs :
          op[p] = "StatusCheck" =>
             /\ pc'[p] # "panic"
             /\ IF Returns(p, "StatusCheck")
                   THEN Appends(IF doCount[p] = 1 /\ ~resp[p].nil
                                   THEN resp[p].status ELSE 0)
                   ELSE responseCodes' = responseCodes]_vars

\* a call that records its status code returns in this step
Completes(p) == \E o \in RecordingOps : Returns(p, o)

\* the status code a returning call has observed: that of the response the
\* transport gave it, 0 when it made no transport call
CodeOf(p) == IF doCount[p] = 0 THEN 0 ELSE resp[p].status

\* C12: single caller: each completed call of StatusCheck, Get, Post, Put or
\* Delete extends what GetResponseCodes returns by exactly the status code
\* the call observed, so the codes stand in call order, one per call; no
\* other step changes the history; GetLastResponseCode returns the entry of
\* the call completed last.
C12_HistoryInCallOrder ==
    [][/\ \A p \in Procs :
             Completes(p) =>
                /\ GetResponseCodes' = GetResponseCodes \o <<CodeOf(p)>>
                /\ GetLastResponseCode' = CodeOf(p)
       /\ (~\E p \in Procs : Completes(p)) => GetResponseCodes' = GetResponseCodes]_vars

C12_Witness ==
    /\ GetResponseCodes = <<StatusUnauthorized, StatusOK>>
    /\ GetLastResponseCode = StatusOK
    /\ \A p \in Procs : pc[p] = "idle"

\* the verb operations of the APIClient
Verbs == {"Get", "Post", "Put", "Delete"}

\* a verb operation returns after an authenticated call that succeeded
ReturnedFromCall(p) ==
    /\ op[p] \in Verbs /\ pc[p] = "done"
    /\ doCount[p] = 1 /\ err[p] = "nil"

\* C13: Get, Post, Put and Delete: when the authenticated call succeeds with
\* a status other than 200, the operation returns the error MakeResponseError
\* makes of the response, never the outcome of decoding the body into the
\* target; when the status is 200 it returns nil exactly if the body decodes
\* into the target, and the decode error otherwise.
C13_VerbOutcome ==
    \A p \in Procs :
        ReturnedFromCall(p) =>
            IF resp[p].status # 200
               THEN /\ ret[p].err = MakeResponseError(resp[p]).err
                    /\ ret[p].msg = MakeResponseError(resp[p]).msg
                    /\ ret[p].err \notin {"nil", "decode"}
               ELSE /\ ret[p].err = "nil" <=> resp[p].body.target
                    /\ ~resp[p].body.target => ret[p].err = "decode"

C13_Witness ==
    \E p \in Procs :
        /\ ReturnedFromCall(p) /\ op[p] = "Delete"
        /\ resp[p].status = 400 /\ resp[p].body.target
        /\ ret[p].err = "notok"

\* the endpoint the operation was given does not resolve: its template has
\* another number of "%v" than it has qualifiers
Unresolvable(p) ==
    Count(Template(Endpoints, endpoint[p].Endpoint)) # Len(endpoint[p].Qualifiers)

\* the lines at which a verb operation calls GetEndpoint
ResolvePCs == {"Get_111", "postPut_157", "Delete_201"}

\* C14: Get, Post, Put and Delete: when GetEndpoint returns an error, the
\* operation returns that error, and neither the Client's Call nor the
\* transport is invoked during the operation.
C14_EndpointErrorBeforeCall ==
    \A p \in Procs :
        op[p] \in Verbs /\ Unresolvable(p) =>
            /\ pc[p] \in ResolvePCs \cup {"done"}
            /\ delegated[p] = 0 /\ doCount[p] = 0
            /\ pc[p] = "done" =>
                  /\ epoint[p].err # "nil"
                  /\ ret[p].err = epoint[p].err /\ ret[p].msg = epoint[p].msg

C14_Witness ==
    \E p \in Procs :
        /\ op[p] = "Post" /\ pc[p] = "done" /\ Unresolvable(p)
        /\ endpoint[p] = [Endpoint |-> 2, Qualifiers |-> <<7, 12>>]
        /\ ret[p].err = "qualifiers"
        /\ delegated[p] = 0

\* what Client.SetNewAPIToken returns for the response and the error of the
\* transport
DelegateError(r, e) ==
    IF e # "nil" THEN e ELSE IF r.token = Empty THEN "notoken" ELSE "nil"

Untouched == budget = MaxAPICalls

\* the decimal digits of the codes of the model, written out
CodeDigits(n) ==
    CASE n = 200 -> <<"2", "0", "0">> [] n = 400 -> <<"4", "0", "0">>
      [] n = 401 -> <<"4", "0", "1">>

\* the response has the content type application/json and a body that
\* decodes into an API error with Code, Type and CombinedInfo all set
Informative(r) ==
    /\ r.contentType = <<"application/json">>
    /\ r.body.apiErr
    /\ r.body.Code # 0 /\ r.body.Type # Empty /\ r.body.CombinedInfo # Empty

\* the error e is the one of the tier the response r falls into
TierOf(r, e) ==
    /\ e.err # "nil"
    /\ IF Informative(r)
          THEN /\ e.err = "api"
               /\ e.msg = <<"Code: ">> \o CodeDigits(r.body.Code) \o <<", Type: ">>
                             \o r.body.Type \o <<", Combined info: ">>
                             \o r.body.CombinedInfo
       ELSE IF r.status = 401
          THEN /\ e.err = "unauthorized"
               /\ e.msg = <<"Unauthorized. Code: ", "4", "0", "1">>
       ELSE /\ e.err = "notok"
            /\ e.msg = <<"Response not ok. No information given. Code: ">>
                          \o CodeDigits(r.status)

QualifierDigits(q) == IF q = 12 THEN <<"1", "2">> ELSE <<"7">>

\* the number of placeholders among the first j elements of template e
Rank(e, j) == Cardinality({k \in 1..j : e[k] = "%v"})

RECURSIVE Flatten(_)
Flatten(ss) == IF ss = << >> THEN << >> ELSE Head(ss) \o Flatten(Tail(ss))

\* template e with its i-th placeholder replaced by the i-th qualifier
Substituted(e, qs) ==
    Flatten([j \in 1..Len(e) |->
                IF e[j] = "%v" THEN QualifierDigits(qs[Rank(e, j)]) ELSE <<e[j]>>])

\* res is what the claim says of resolving resource r
ResolvesTo(r, res) ==
    LET e == IF r.Endpoint \in DOMAIN Endpoints THEN Endpoints[r.Endpoint] ELSE << >>
    IN  IF Rank(e, Len(e)) # Len(r.Qualifiers)
           THEN res.err # "nil" /\ res.path = Empty
           ELSE /\ res.err = "nil"
                /\ res.path = Substituted(e, r.Qualifiers)
                /\ r.Qualifiers = << >> => res.path = e

\* the lines of a verb operation between GetEndpoint and the call
ResolvedPCs == {"Get_116", "postPut_163", "postPut_169", "Delete_205"}

\* C17: Resource.GetEndpoint returns a count-mismatch error and an empty
\* path whenever the template of the key has another number of "%v" than
\* there are qualifiers; with equal numbers it returns no error and the
\* template with the i-th "%v" replaced by the i-th qualifier (the template
\* itself when both numbers are 0).  This is what the verb operations get.
C17_GetEndpoint ==
    /\ Untouched => \A r \in Resources : ResolvesTo(r, GetEndpoint(r))
    /\ \A p \in Procs :
          /\ op[p] \in Verbs
          /\ pc[p] \in ResolvedPCs \/ (pc[p] = "done" /\ delegated[p] = 0)
          /\ endpoint[p] \in Resources
          => ResolvesTo(endpoint[p], epoint[p])

C17_Witness ==
    \E p \in Procs :
        /\ pc[p] = "Get_116"
        /\ endpoint[p] = [Endpoint |-> 3, Qualifiers |-> <<12, 7, 12>>]
        /\ epoint[p].err = "nil"
        /\ epoint[p].path = <<"test/", "1", "2", ";", "7", "/", "1", "2">>

\* the paths the resources of the model resolve to
ResourcePaths ==
    { Substituted(Template(Endpoints, r.Endpoint), r.Qualifiers) :
        r \in {x \in Resources :
                  Count(Template(Endpoints, x.Endpoint)) = Len(x.Qualifiers)} }

\* the URL of the request the transport is given has the shape
\* <BaseURL>/<parts...>/<path> for one of the paths
HasShape(url, parts, paths) ==
    \E path \in paths :
        url = BaseURL \o Flatten([j \in 1..Len(parts) |-> <<"/">> \o parts[j]])
                      \o <<"/">> \o path

\* the shapes of the URLs of StatusCheck and of SetNewAPIToken
FixedShapes(p) ==
    /\ op[p] = "StatusCheck" =>
          HasShape(req[p].url, << <<"v2.0">> >>, { <<"status_check">> })
    /\ op[p] = "APIClient.SetNewAPIToken" =>
          HasShape(req[p].url, <<API, <<"v2.0">> >>, { <<"token">> })

\* C18: the request the transport is given has the URL
\* <baseURL>/<API-version>/<resource-path> in Get, Post, Put and Delete,
\* <baseURL>/<API-version>/status_check in StatusCheck and
\* <baseURL>/<api-name>/<API-version>/token in SetNewAPIToken, the version
\* being the literal v2.0.
C18_URLShapes ==
    \A p \in Procs :
        pc[p] = "CallRaw_78" =>
            /\ FixedShapes(p)
            /\ op[p] \in Verbs => HasShape(req[p].url, << <<"v2.0">> >>, ResourcePaths)

\* C18, amended: as C18, but the URL of Get, Post, Put and Delete is
\* <baseURL>/<api-name>/<API-version>/<resource-path>.
C18_URLShapesAmended ==
    \A p \in Procs :
        pc[p] = "CallRaw_78" =>
            /\ FixedShapes(p)
            /\ op[p] \in Verbs => HasShape(req[p].url, <<API, <<"v2.0">> >>, ResourcePaths)

C18_Witness ==
    \E p \in Procs :
        /\ pc[p] = "CallRaw_78" /\ op[p] = "Put"
        /\ req[p].method = "PUT"
        /\ req[p].url = <<"h", "/", "api", "/", "v2.0", "/", "test/", "7">>

\* C19: no retries: every invocation of the Client by an APIClient operation
\* (Call by the verbs, CallRaw by StatusCheck, SetNewAPIToken by
\* SetNewAPIToken) invokes the transport's Do exactly once, and every
\* APIClient operation invokes the Client at most once, whether the call
\* succeeds or fails.  (UnsetAuthToken invokes the Client without any call
\* of the transport.)
C19_NoRetries ==
    \A p \in Procs :
        /\ delegated[p] <= 1
        /\ doCount[p] <= delegated[p]
        /\ pc[p] \in {"done", "panic"} /\ op[p] # "APIClient.UnsetAuthToken"
              => doCount[p] = delegated[p]

C19_Witness ==
    \E p \in Procs :
        /\ op[p] = "APIClient.SetNewAPIToken" /\ pc[p] = "done"
        /\ err[p] = "transport" /\ ret[p].err = "transport"
        /\ doCount[p] = 1 /\ delegated[p] = 1

\* the request carries a non-empty token header and an empty password
TokenMode(r) == r.hasToken /\ r.token # Empty /\ r.hasAuth /\ r.password = Empty

\* the request carries no token header and the configured password
PasswordMode(r) == ~r.hasToken /\ r.hasAuth /\ r.password = Password

\* C20: every request that Call or SetNewAPIToken passes to the transport
\* uses exactly one authentication mode: a token header with a non-empty
\* token and an empty password, or no token header and the configured
\* password; also when UnsetAuthToken or a harvest runs in another goroutine
\* while the headers are built.
C20_OneAuthMode ==
    \A p \in Procs :
        pc[p] = "CallRaw_78" /\ op[p] \in {"Call", "SetNewAPIToken"} =>
            TokenMode(req[p]) \/ PasswordMode(req[p])

\* C21: no step of Call, CallRaw, SetNewAPIToken, GetAuthToken or
\* UnsetAuthToken changes User, Password or AccountID: they keep the values
\* the configuration functions gave them.
C21_CredentialsImmutable ==
    [][User' = User /\ Password' = Password /\ AccountID' = AccountID]_vars

C21_Witness ==
    \E p \in Procs :
        /\ AtTransport(p, "Call")
        /\ prevOp[p].op = "SetNewAPIToken"
        /\ req[p].hasToken /\ req[p].password = Empty
        /\ Password # Empty /\ AccountID # 0

C23_VerbReturnsCallError ==
    \A p \in Procs :
        op[p] \in Verbs =>
            /\ pc[p] # "panic"
            /\ pc[p] = "done" /\ doCount[p] = 1 /\ err[p] # "nil" =>
                  ret[p].err = err[p]

\* C24: with an empty BaseURL or an empty API name, Get, Post, Put and
\* Delete return an error and never call the Client.
C24_VerbsNeedBaseURLAndAPI ==
    \A p \in Procs :
        op[p] \in Verbs /\ (BaseURL = Empty \/ API = Empty) =>
            /\ delegated[p] = 0 /\ doCount[p] = 0
            /\ pc[p] = "done" => ret[p].err # "nil"

\* a Call or CallRaw of goroutine p has returned what the transport gave
CallReturned(p) ==
    /\ op[p] \in {"Call", "CallRaw"}
    /\ pc[p] = "done"
    /\ doCount[p] = 1

\* the harvest of the returned call was attempted and found no token header
HarvestFailed(p) == entryToken[p] = Empty /\ HeaderGetToken(resp[p]) = Empty

\* C25: a Call or CallRaw whose transport succeeds with a token header in
\* the response has logged two info entries and no debug entry; a failed
\* harvest has logged a debug entry, and the call returns the response and
\* the error of the transport as they were.
C25_CallLogs ==
    \A p \in Procs : CallReturned(p) =>
        /\ err[p] = "nil" /\ HeaderGetToken(resp[p]) # Empty =>
              logs[p] = [info |-> 2, debug |-> 0]
        /\ HarvestFailed(p) =>
              /\ logs[p].debug = IF err[p] = "nil" THEN 1 ELSE 2
              /\ logs[p].info = 2
              /\ ret[p].resp = resp[p]
              /\ ret[p].err = err[p]

C25_Witness ==
    \E p \in Procs :
        /\ CallReturned(p) /\ HarvestFailed(p)
        /\ op[p] = "Call"
        /\ err[p] = "nil"
        /\ logs[p] = [info |-> 2, debug |-> 1]
        /\ ret[p] = CallRawReturn(resp[p], "nil")
        /\ Token = Empty

C25_WitnessHeader ==
    \E p \in Procs :
        /\ CallReturned(p)
        /\ err[p] = "nil" /\ HeaderGetToken(resp[p]) # Empty
        /\ entryToken[p] = Empty /\ Token # Empty
        /\ logs[p] = [info |-> 2, debug |-> 0]

\* goroutine p, in a call the transport has answered, stores the token
\* header of that answer
StoresHeader(p) ==
    /\ pc[p] = "setTokenFromResponse_131"
    /\ doCount[p] >= 1 /\ ~resp[p].nil
    /\ Token' = HeaderGetToken(resp[p])

\* C26: the stored token starts as the configured value or empty, and every
\* later change stores either the empty string or the token header of a
\* response the transport returned to a call on this client; no torn or
\* other value is ever stored.
C26_TokenProvenance ==
    /\ [](Token \in {Empty} \cup ConfigTokens \cup ResponseTokens)
    /\ [][Token' # Token => Token' = Empty \/ \E p \in Procs : StoresHeader(p)]_vars

C26_Witness ==
    \E p, q \in Procs :
        /\ p # q
        /\ pc[p] = "setTokenFromResponse_132"
        /\ Token = HeaderGetToken(resp[p]) /\ Token \in ResponseTokens
        /\ op[p] = "SetNewAPIToken"
        /\ op[q] = "UnsetAuthToken" /\ pc[q] = "done"

\* C27: when SetNewAPIToken returns an error to a single caller, the stored
\* token is the one that was stored when the operation was invoked.
C27_FailedSetNewAPITokenKeepsToken ==
    \A p \in Procs :
        Returned(p, "SetNewAPIToken") /\ ret[p].err # "nil" =>
            Token = entryToken[p]

\* the request carries no credential: no token, and no password
NoCredential(r) == (~r.hasToken \/ r.token = Empty) /\ r.password = Empty

\* C28: with a non-empty configured Password, no request that Call passes to
\* the transport is without a credential, also when UnsetAuthToken runs in
\* another goroutine while setAuth builds the headers.
C28_CallSendsCredential ==
    \A p \in Procs :
        Password # Empty /\ AtTransport(p, "Call") => ~NoCredential(req[p])

\* the lines at which a goroutine calls c.M.Lock()
LockPCs == {"CallRaw_87", "setTokenFromResponse_130", "UnsetAuthToken_160"}

\* goroutine p is inside an operation of the Client
Running(p) == pc[p] \notin {"idle", "done"}

\* C29: a goroutine holds M only between a Lock and the Unlock of the same
\* function, is never at a Lock while it holds M, and every operation that
\* was invoked eventually returns, with M not held by its goroutine.
C29_DeadlockFree ==
    /\ [](\A p \in Procs : (M = p => pc[p] \in LockedPCs)
                           /\ (pc[p] \in LockPCs => M # p))
    /\ \A p \in Procs : Running(p) ~> (pc[p] = "done" /\ M # p)

\* a number of qualifiers below 10 as fmt prints it
CountDigit(n) == <<"0", "1", "2", "3", "4", "5", "6", "7", "8", "9">>[n + 1]

\* res is the outcome for a key without a template and qualifiers qs: the
\* empty path and no error without qualifiers, else the count-mismatch error
\* that expected 0
UnknownResolution(qs, res) ==
    IF qs = << >>
       THEN res = [path |-> Empty, err |-> "nil", msg |-> Empty]
       ELSE /\ res.path = Empty
            /\ res.err = "qualifiers"
            /\ res.msg = <<"Amount of qualifiers did not match expected. Got ">>
                            \o <<CountDigit(Len(qs))>> \o <<", expected ">> \o <<"0">>

\* C30: for a key without a template in Endpoints, and for every key when
\* the mapping is nil, GetEndpoint returns the empty path and no error given
\* no qualifiers, and the count-mismatch error given some; it has no error
\* for an unknown key.  This is what the verb operations get.
C30_UnknownKey ==
    /\ Untouched =>
          \A qs \in QualifierSeqs :
              /\ UnknownResolution(qs, GetEndpoint([Endpoint |-> UnknownKey,
                                                     Qualifiers |-> qs]))
              /\ \A k \in DOMAIN Endpoints \cup {UnknownKey} :
                    UnknownResolution(qs, ResourceGetEndpoint(NilEndpoints,
                                              [Endpoint |-> k, Qualifiers |-> qs]))
    /\ \A p \in Procs :
          /\ op[p] \in Verbs
          /\ pc[p] \in ResolvedPCs \/ (pc[p] = "done" /\ delegated[p] = 0)
          /\ endpoint[p].Endpoint = UnknownKey
          => UnknownResolution(endpoint[p].Qualifiers, epoint[p])

C30_Witness ==
    \E p \in Procs :
        /\ pc[p] = "Delete_205"
        /\ endpoint[p] = [Endpoint |-> UnknownKey, Qualifiers |-> << >>]
        /\ epoint[p] = [path |-> Empty, err |-> "nil", msg |-> Empty]

C30_WitnessMismatch ==
    \E p \in Procs :
        /\ op[p] = "Get" /\ pc[p] = "done" /\ delegated[p] = 0
        /\ endpoint[p] = [Endpoint |-> UnknownKey, Qualifiers |-> <<7, 12>>]
        /\ epoint[p].err = "qualifiers"
        /\ ret[p].err # "nil"

=============================================================================
